---- MODULE Spec2Model ----
(***************************************************************************)
(* Home energy meter (MicroPython, ESP32): boot.py, esp32_time.py,         *)
(* timed_adcs.py and main.py.                                              *)
(*                                                                         *)
(* Three cooperative uasyncio tasks (measure_task, mqtt_task,              *)
(* check_WiFi_task) share one processor; a task runs from one suspension   *)
(* point (await) to the next without another task running.  The timer      *)
(* callback Timed_ADCs.adc_callback and the wall clock run on their own    *)
(* and interleave with everything.  web_up() of boot.py sleeps with the    *)
(* blocking time.sleep_ms, so its caller keeps the processor while it      *)
(* waits.                                                                  *)
(*                                                                         *)
(* Units.  Floats are modelled as fixed point with truncation: ADC         *)
(* readings and RMS in microvolts, currents in milliamps, the values of a  *)
(* Reading in hundredths of a watt (the two decimals of the format).       *)
(* time_str() is modelled at minute granularity as <<hour, minute>>.       *)
(***************************************************************************)
EXTENDS Integers, Sequences, FiniteSets, TLC

\* ------------------------------------------------------------ bounds
\* Capacity of each sample buffer (buf_size; main.py passes BUF_SIZE = 1000).
BufSize == 2
\* Largest number of sampling cycles accumulated into one window.
MaxCount == 2
\* The RTC at power-up, in minutes since 2026-01-01 00:00 UTC: a stale value,
\* which nothing reads before sync_time() replaces it.
PowerUpTime == 0
\* The time the NTP server gives to sync_time(), in the same minutes: one of
\* 2026-11-01 07:56 UTC, four minutes before local midnight,
\* 2026-03-07 23:58 UTC, two minutes before daylight time begins, and
\* 2026-10-31 23:58 UTC, two minutes before daylight time ends.
StartTime == 438236
SpringStart == 95038
FallStart == 437758
\* Number of minutes the wall clock advances before the synchronization and
\* in a run synchronized to StartTime, and in one synchronized to SpringStart
\* or FallStart.
Horizon == 4
DstHorizon == 3
\* Number of one-second polls of web_up before it times out (60 in boot.py).
ConnectPolls == 1
\* The nonzero raw ADC reading, in microvolts.
SampleHigh == 10000
\* Largest number of failing sensor reads during one pass.
MaxFail == 2
\* Largest number of Readings produced in a run.
MaxFlushes == 2

\* ------------------------------------------------- program constants
LOCAL_OFFSET == -8
MIN_PER_READING == 2
AC_VOLTAGE == 120
\* UV_TO_AMPS = 100 / 500000: AMPS_SPAN amps per UV_SPAN microvolts.
AMPS_SPAN == 100
UV_SPAN == 500000

VARIABLES
    time,           \* utime.time(), in minutes since 2026-01-01 00:00 UTC
    station,        \* network.WLAN(STA_IF): "off" (inactive), "joining", "up"
    mainpc,         \* __main__: "web_up", "sync_time", "start", "run", "exited", "aborted"
    net_station,    \* __main__: what web_up() returned at line 204: "None" or "station"
    running,        \* who holds the processor: "main", "measure", "mqtt", "wifi", "none"
    upc,            \* web_up(): "idle", "try", "poll"
    ucount,         \* web_up(): count of the for loop
    mpc,            \* measure_task: "init","start","rt_index","rt_init","wait","rms","check","dead"
    next_minute,    \* measure_task local
    today,          \* measure_task local: the day of the month the task began on
    startDay,       \* history: the local day (dayno) the task began on
    sum_amps,       \* measure_task local, milliamps per channel
    count,          \* measure_task local
    bufA, bufB, bufX, index, ready,   \* Timed_ADCs fields
    timer,          \* Timed_ADCs.timer: TRUE when armed (init), FALSE after deinit
    current_power,  \* global mailbox of the main stream: None or <<Reading>>
    current_extra,  \* global mailbox of the extra stream
    qpc,            \* mqtt_task: "connect","sleep","pub_power","check_extra","pub_extra","dead"
    wpc,            \* check_WiFi_task: "sleep","pause","web_up","dead"
    publishing,     \* mqtt_task: the payload client.publish() is sending, or None
    window,         \* history: the amps tuples accumulated since the last flush
    opened,         \* history: the local wall-clock minute at which the current window opened
    flushes,        \* history: number of Readings produced so far
    sentPower,      \* history: ids of the Readings handed to client.publish on MQTT_TOPIC
    sentExtra,      \* history: ids of the Readings handed to client.publish on EXTRA_TOPIC
    fails,          \* history: number of failed sensor reads during the current pass
    ticks,          \* history: number of timer callbacks of the current pass
    stamp,          \* history: per slot, the tick of this pass that wrote each channel (0: none)
    accumulated     \* history: the current pass has been added to the running sums

adcVars   == <<bufA, bufB, bufX, index, ready, timer>>
winVars   == <<next_minute, today, startDay, sum_amps, count, window, opened>>
mailVars  == <<current_power, current_extra>>
pubVars   == <<qpc, publishing>>
sentVars  == <<sentPower, sentExtra>>
upVars    == <<upc, ucount>>
failVars  == <<fails, ticks, stamp, accumulated>>
vars == <<time, station, mainpc, net_station, running, upc, ucount, mpc, next_minute, today,
          startDay, sum_amps,
          count, bufA, bufB, bufX, index, ready, timer, current_power,
          current_extra, qpc, publishing, wpc, window, opened, flushes, sentPower,
          sentExtra, fails, ticks, stamp, accumulated>>

\* ------------------------------------------------------------ helpers
None == << >>

Zeros == <<0, 0, 0>>

\* The raw readings the three sensors give at one timer tick.
Samples == { <<0, 0, 0>>, <<SampleHigh, SampleHigh \div 2, SampleHigh \div 4>> }

RECURSIVE SeqSum(_)
SeqSum(s) == IF s = << >> THEN 0 ELSE Head(s) + SeqSum(Tail(s))

RECURSIVE SqrtIter(_, _, _)
SqrtIter(n, lo, hi) ==
    IF lo >= hi THEN lo
    ELSE LET mid == (lo + hi + 1) \div 2
         IN  IF mid * mid <= n THEN SqrtIter(n, mid, hi) ELSE SqrtIter(n, lo, mid - 1)

\* math.sqrt, truncated to an integer.
Sqrt(n) == SqrtIter(n, 0, 46340)

\* ------------------------------------------------------ esp32_time.py
\* The calendar of 2026: time counts the minutes of the RTC (UTC) from
\* 2026-01-01 00:00, a Thursday (weekday 3 when Monday is 0).
MonthDays == <<31, 28, 31, 30, 31, 30, 31, 31, 30, 31, 30, 31>>

RECURSIVE MonthDay(_, _)
MonthDay(d, m) ==
    IF d < MonthDays[m] THEN <<m, d + 1>> ELSE MonthDay(d - MonthDays[m], m + 1)

\* utime.gmtime / utime.localtime of t minutes; dayno stands for the date as
\* a whole (the number of the day since the first of January).
gmtime(t) ==
    LET dayno == t \div (24 * 60)
        md    == MonthDay(dayno, 1)
    IN  [dayno |-> dayno, month |-> md[1], mday |-> md[2],
         hour |-> (t \div 60) % 24, minute |-> t % 60, weekday |-> (dayno + 3) % 7]

localtime(t) == gmtime(t)

\* Lines 16-54.
daylight_time(dtime) ==
    LET day            == dtime.mday
        month          == dtime.month
        weekday        == dtime.weekday
        previousSunday == day - ((weekday + 1) % 7)
    IN  IF month < 3 \/ month > 11 THEN FALSE
        ELSE IF month > 3 /\ month < 11 THEN TRUE
        ELSE IF month = 3 THEN previousSunday >= 8
        ELSE previousSunday <= 0

\* Lines 79-82 with the two readings of utime.time(), t1 at line 80 and t2
\* at line 82.
time_at(t1, t2) ==
    LET local_offset == IF daylight_time(gmtime(t1)) THEN LOCAL_OFFSET + 1 ELSE LOCAL_OFFSET
    IN  localtime(t2 + local_offset * 60)

time_now == time_at(time, time)

minutes_of(now) == now.hour * 60 + now.minute

minutes_now == minutes_of(time_now)

str_of(now) == <<now.hour, now.minute>>

time_str == str_of(time_now)

\* The local wall clock as one number: minutes since the local midnight that
\* began 2026-01-01.
local_minute(now) == now.dayno * (24 * 60) + minutes_of(now)

\* The k-th reading of utime.time() made by a step during which the clock
\* ticks after the first n readings (never, when the step makes no more than
\* n): a step between two awaits takes far less than a minute.
clock_read(n, k) == IF k > n THEN time + 1 ELSE time

\* The clock may tick: the run has minutes left.
CanTick ==
    \/ \E s \in {PowerUpTime, StartTime} : s <= time /\ time < s + Horizon
    \/ \E s \in {SpringStart, FallStart} : s <= time /\ time < s + DstHorizon

\* ------------------------------------------------------ timed_adcs.py
\* The sums of squares of get_RMS exceed 31 bits for readings over the range
\* of the ADC (microvolts up to a few million), so they are kept as wide
\* numbers <<hi, lo>> standing for hi * Wide + lo with 0 <= lo < Wide.
Wide == 16777216
Half == 4096

WNorm(hi, lo) == <<hi + (lo \div Wide), lo % Wide>>

\* a * a for 0 <= a < 2^23.
WSquare(a) ==
    LET h == a \div Half
        l == a % Half
        m == 2 * h * l
    IN  WNorm(h * h + (m \div Half), (m % Half) * Half + l * l)

WLeq(x, y) == x[1] < y[1] \/ (x[1] = y[1] /\ x[2] <= y[2])

RECURSIVE WSqrtIter(_, _, _)
WSqrtIter(w, lo, hi) ==
    IF lo >= hi THEN lo
    ELSE LET mid == (lo + hi + 1) \div 2
         IN  IF WLeq(WSquare(mid), w) THEN WSqrtIter(w, mid, hi)
                                      ELSE WSqrtIter(w, lo, mid - 1)

\* math.sqrt of a wide number, truncated to an integer.  A number under 2^31
\* is an ordinary integer; else, with r the root of the high part, the root
\* lies from Half * r to Half * (r + 1) - 1.
WSqrt(w) ==
    IF w[1] < 128 THEN Sqrt(w[1] * Wide + w[2])
    ELSE LET r == Sqrt(w[1])
         IN  WSqrtIter(w, Half * r, Half * (r + 1) - 1)

Abs(a) == IF a < 0 THEN 0 - a ELSE a

\* sqrt(sum((item - total / n)^2) / n), truncated, for n = buf_size.  With
\* d = n * item - total = n * a + b (0 <= b < n) per item, the mean square is
\* (n^2 * sum(a^2) + 2 * n * sum(a * b) + sum(b^2)) / n^3.
RmsAbout(buf, total) ==
    LET n    == BufSize
        d(i) == n * buf[i] - total
        a(i) == d(i) \div n
        b(i) == d(i) % n
        sqs  == [i \in 1..n |-> WSquare(Abs(a(i)))]
        sumA == WNorm(SeqSum([i \in 1..n |-> sqs[i][1]]), SeqSum([i \in 1..n |-> sqs[i][2]]))
        rest == (sumA[1] % n) * Wide + sumA[2]
        sumB == 2 * SeqSum([i \in 1..n |-> a(i) * b(i)])
        sumC == SeqSum([i \in 1..n |-> b(i) * b(i)])
        frac == (n * n * (rest % n) + n * sumB + sumC) \div (n * n * n)
    IN  WSqrt(WNorm(sumA[1] \div n, (rest \div n) + frac))

\* RMS of one buffer after removal of its own mean (lines 83-99).
RmsOf(buf) == RmsAbout(buf, SeqSum(buf))

\* RmsOf with the deviations taken from the mean of another buffer.
RmsAround(buf, other) == RmsAbout(buf, SeqSum(other))

\* Variant of get_RMS: the loops over bufB and bufX subtract avgA.
get_RMS_shared_avg == <<RmsOf(bufA), RmsAround(bufB, bufA), RmsAround(bufX, bufA)>>

get_RMS == <<RmsOf(bufA), RmsOf(bufB), RmsOf(bufX)>>

\* Microvolts to milliamps with UV_TO_AMPS.
get_amps_RMS ==
    LET uv_rms == get_RMS
    IN  <<(uv_rms[1] * AMPS_SPAN) \div (UV_SPAN \div 1000),
          (uv_rms[2] * AMPS_SPAN) \div (UV_SPAN \div 1000),
          (uv_rms[3] * AMPS_SPAN) \div (UV_SPAN \div 1000)>>

\* Variant of adc_callback: the pass is declared complete one slot early.
adc_callback_early_ready ==
    /\ timer
    /\ IF index >= BufSize - 1
       THEN /\ timer' = FALSE
            /\ ready' = TRUE
            /\ UNCHANGED <<bufA, bufB, bufX, index, stamp>>
       ELSE /\ \E s \in Samples :
                 /\ bufA' = [bufA EXCEPT ![index + 1] = s[1]]
                 /\ bufB' = [bufB EXCEPT ![index + 1] = s[2]]
                 /\ bufX' = [bufX EXCEPT ![index + 1] = s[3]]
            /\ stamp' = [stamp EXCEPT ![index + 1] = <<ticks + 1, ticks + 1, ticks + 1>>]
            /\ index' = index + 1
            /\ UNCHANGED <<timer, ready>>
    /\ ticks' = ticks + 1
    /\ UNCHANGED <<time, station, mainpc, running, upc, ucount, mpc, winVars,
                   mailVars, pubVars, wpc, flushes, sentVars, fails, accumulated,
                   net_station>>

\* The timer callback: one tick of the periodic timer.
adc_callback ==
    /\ timer
    /\ IF index >= BufSize
       THEN /\ timer' = FALSE
            /\ ready' = TRUE
            /\ UNCHANGED <<bufA, bufB, bufX, index, stamp>>
       ELSE /\ \E s \in Samples :
                 /\ bufA' = [bufA EXCEPT ![index + 1] = s[1]]
                 /\ bufB' = [bufB EXCEPT ![index + 1] = s[2]]
                 /\ bufX' = [bufX EXCEPT ![index + 1] = s[3]]
            /\ stamp' = [stamp EXCEPT ![index + 1] = <<ticks + 1, ticks + 1, ticks + 1>>]
            /\ index' = index + 1
            /\ UNCHANGED <<timer, ready>>
    /\ ticks' = ticks + 1
    /\ UNCHANGED <<time, station, mainpc, running, upc, ucount, mpc, winVars,
                   mailVars, pubVars, wpc, flushes, sentVars, fails, accumulated,
                   net_station>>

\* A tick during which read_uv() of channel ch raises: the statements before it
\* have run, the ones after it have not, and the periodic timer stays armed.
adc_callback_fail ==
    /\ timer
    /\ index < BufSize
    /\ fails < MaxFail
    /\ \E ch \in 1..3, s \in Samples :
          /\ bufA' = IF ch > 1 THEN [bufA EXCEPT ![index + 1] = s[1]] ELSE bufA
          /\ bufB' = IF ch > 2 THEN [bufB EXCEPT ![index + 1] = s[2]] ELSE bufB
          /\ stamp' = [stamp EXCEPT ![index + 1] =
                          <<IF ch > 1 THEN ticks + 1 ELSE @[1],
                            IF ch > 2 THEN ticks + 1 ELSE @[2], @[3]>>]
    /\ fails' = fails + 1
    /\ ticks' = ticks + 1
    /\ UNCHANGED <<bufX, index, ready, timer, accumulated>>
    /\ UNCHANGED <<time, station, mainpc, running, upc, ucount, mpc, winVars,
                   mailVars, pubVars, wpc, flushes, sentVars, net_station>>

\* ------------------------------------------------------------ boot.py
InWebUp == upc \in {"try", "poll"}

\* web_up returns ret to its caller: __main__ at start-up, which keeps it as
\* net_station (main.py 204), else check_WiFi_task (main.py 179), which drops
\* it and whose loop then suspends in asyncio.sleep_ms(60000).  The local
\* count is gone.
web_up_return(ret) ==
    /\ ucount' = 0
    /\ IF mainpc = "web_up"
       THEN mainpc' = "sync_time" /\ net_station' = ret /\ UNCHANGED <<wpc, running>>
       ELSE wpc' = "sleep" /\ running' = "none" /\ UNCHANGED <<mainpc, net_station>>

web_up_called == mainpc = "web_up" \/ (mainpc = "run" /\ wpc = "web_up")

\* Lines 13-18: already connected, print and fall off the end of the function
\* (the call returns None); else enter the retry loop.
web_up_enter ==
    /\ web_up_called
    /\ upc = "idle"
    /\ IF station = "up"
       THEN web_up_return("None") /\ UNCHANGED upc
       ELSE upc' = "try" /\ UNCHANGED <<mainpc, net_station, wpc, running, ucount>>
    /\ UNCHANGED <<time, station, mpc, winVars, adcVars, mailVars, pubVars,
                   flushes, sentVars, failVars>>

\* Lines 21-24: activate the station, ask for the connection, start the for loop.
web_up_connect ==
    /\ upc = "try"
    /\ station' = "joining"
    /\ ucount' = 0
    /\ upc' = "poll"
    /\ UNCHANGED <<time, mainpc, running, mpc, winVars, adcVars, mailVars, pubVars,
                   wpc, flushes, sentVars, failVars, net_station>>

\* Lines 25-28: not connected yet; sleep_ms(1000) of module time blocks.
web_up_wait ==
    /\ upc = "poll"
    /\ ucount < ConnectPolls
    /\ station # "up"
    /\ ucount' = ucount + 1
    /\ UNCHANGED <<time, station, mainpc, running, upc, mpc, winVars, adcVars,
                   mailVars, pubVars, wpc, flushes, sentVars, failVars, net_station>>

\* Lines 29-31: connected; return the station.
web_up_connected ==
    /\ upc = "poll"
    /\ ucount < ConnectPolls
    /\ station = "up"
    /\ upc' = "idle"
    /\ web_up_return("station")
    /\ UNCHANGED <<time, station, mpc, winVars, adcVars, mailVars, pubVars,
                   flushes, sentVars, failVars>>

\* Lines 33-37: the for loop ran out; tear down and start over.
web_up_timeout ==
    /\ upc = "poll"
    /\ ucount = ConnectPolls
    /\ station' = "off"
    /\ upc' = "try"
    /\ UNCHANGED <<time, mainpc, running, ucount, mpc, winVars, adcVars, mailVars,
                   pubVars, wpc, flushes, sentVars, failVars, net_station>>

\* web_down(arg): the state of the station after the call.  With a station
\* object it is disconnected and made inactive; with None (lines 52-53) the
\* function only prints and the station stays as it is.
web_down(arg) == IF arg # "None" THEN "off" ELSE station

\* ------------------------------------------------------------ main.py
\* A cooperative task may run when the event loop runs and no other task is
\* between two of its suspension points.
CanRun(t) == mainpc = "run" /\ running \in {"none", t}

\* Lines 73-89 with the first boundary len minutes from now: minutes_now() at
\* line 81 and time_now() at line 84 read the clock twice each, and the clock
\* ticks after n of the four readings.
begin_step(n, len) ==
    LET now81 == time_at(clock_read(n, 1), clock_read(n, 2))
        now84 == time_at(clock_read(n, 3), clock_read(n, 4))
    IN  /\ CanRun("measure")
        /\ mpc = "init"
        /\ n < 4 => CanTick
        /\ next_minute' = minutes_of(now81) + len
        /\ today' = now84.mday
        /\ startDay' = now81.dayno
        /\ opened' = local_minute(now81)
        /\ sum_amps' = Zeros
        /\ count' = 0
        /\ mpc' = "start"
        /\ running' = "measure"
        /\ time' = IF n < 4 THEN time + 1 ELSE time
        /\ UNCHANGED <<station, mainpc, upVars, adcVars, mailVars, pubVars, wpc,
                       window, flushes, sentVars, failVars, net_station>>

\* Variant of measure_begin: the first window is a full MIN_PER_READING long.
measure_begin_full_window == \E n \in 1..4 : begin_step(n, MIN_PER_READING)

\* Lines 73-89: the task starts; the first window ends one minute from now.
measure_begin == \E n \in 1..4 : begin_step(n, 1)

\* Mutant of read_timed_ready: the timer is armed before ready and index are reset.
read_timed_arm_first ==
    /\ CanRun("measure")
    /\ mpc = "start"
    /\ timer' = TRUE
    /\ ready' = FALSE
    /\ fails' = 0
    /\ ticks' = 0
    /\ stamp' = [i \in 1..BufSize |-> Zeros]
    /\ accumulated' = FALSE
    /\ mpc' = "rt_index"
    /\ running' = "measure"
    /\ UNCHANGED <<time, station, mainpc, upVars, winVars, bufA, bufB, bufX, index,
                   mailVars, pubVars, wpc, flushes, sentVars, net_station>>

\* read_timed(), timed_adcs.py line 74: self.ready = False.
read_timed_ready ==
    /\ CanRun("measure")
    /\ mpc = "start"
    /\ ready' = FALSE
    /\ fails' = 0
    /\ ticks' = 0
    /\ stamp' = [i \in 1..BufSize |-> Zeros]
    /\ accumulated' = FALSE
    /\ mpc' = "rt_index"
    /\ running' = "measure"
    /\ UNCHANGED <<time, station, mainpc, upVars, winVars, bufA, bufB, bufX, index,
                   timer, mailVars, pubVars, wpc, flushes, sentVars, net_station>>

\* read_timed(), line 75: self.index = 0.
read_timed_index ==
    /\ CanRun("measure")
    /\ mpc = "rt_index"
    /\ index' = 0
    /\ mpc' = "rt_init"
    /\ UNCHANGED <<time, station, mainpc, running, upVars, winVars, bufA, bufB,
                   bufX, ready, timer, mailVars, pubVars, wpc, flushes, sentVars,
                   failVars, net_station>>

\* read_timed(), lines 76-77: arm the timer; then main.py lines 93-94 suspend
\* the task in asyncio.sleep_ms(1) until ready is seen.
read_timed_init ==
    /\ CanRun("measure")
    /\ mpc = "rt_init"
    /\ timer' = TRUE
    /\ mpc' = "wait"
    /\ running' = "none"
    /\ UNCHANGED <<time, station, mainpc, upVars, winVars, bufA, bufB, bufX, index,
                   ready, mailVars, pubVars, wpc, flushes, sentVars, failVars,
                   net_station>>

\* Mutant of measure_poll: the loop is left without ready having been seen.
measure_poll_unready ==
    /\ CanRun("measure")
    /\ mpc = "wait"
    /\ mpc' = "rms"
    /\ running' = "measure"
    /\ UNCHANGED <<time, station, mainpc, upVars, winVars, adcVars, mailVars, pubVars,
                   wpc, flushes, sentVars, failVars, net_station>>

\* Lines 93-94: the poll that finds ready true leaves the loop.
measure_poll ==
    /\ CanRun("measure")
    /\ mpc = "wait"
    /\ ready
    /\ mpc' = "rms"
    /\ running' = "measure"
    /\ UNCHANGED <<time, station, mainpc, upVars, winVars, adcVars, mailVars, pubVars,
                   wpc, flushes, sentVars, failVars, net_station>>

\* Mutant of measure_accumulate: count is not incremented.
measure_accumulate_nocount ==
    /\ CanRun("measure")
    /\ mpc = "rms"
    /\ count < MaxCount
    /\ \E amps \in {get_amps_RMS} :
          /\ sum_amps' = [i \in 1..3 |-> sum_amps[i] + amps[i]]
          /\ window' = Append(window, amps)
    /\ accumulated' = TRUE
    /\ mpc' = "check"
    /\ UNCHANGED <<time, station, mainpc, running, upVars, next_minute, today, startDay, opened,
                   count, adcVars, mailVars, pubVars, wpc, flushes, sentVars, fails,
                   ticks, stamp, net_station>>

\* Lines 95-100: RMS of the buffers, added to the running sums.
measure_accumulate ==
    /\ CanRun("measure")
    /\ mpc = "rms"
    /\ count < MaxCount
    /\ \E amps \in {get_amps_RMS} :
          /\ sum_amps' = [i \in 1..3 |-> sum_amps[i] + amps[i]]
          /\ window' = Append(window, amps)
    /\ count' = count + 1
    /\ accumulated' = TRUE
    /\ mpc' = "check"
    /\ UNCHANGED <<time, station, mainpc, running, upVars, next_minute, today, startDay, opened,
                   adcVars, mailVars, pubVars, wpc, flushes, sentVars, fails,
                   ticks, stamp, net_station>>

\* Line 105 and the .2f of lines 112 and 114: (sum / count) * AC_VOLTAGE
\* rounded to the nearest hundredth of a watt, from a sum in milliamps (a
\* milliamp times a volt is a tenth of a hundredth of a watt).  The floats
\* decide which way a quotient exactly half way between two hundredths goes,
\* by the rounding errors of the division and the product: both neighbours
\* are possible.
Average(total, n) ==
    LET num == total * AC_VOLTAGE
        den == 10 * n
        q   == num \div den
        r   == num % den
    IN  IF 2 * r < den THEN {q}
        ELSE IF 2 * r > den THEN {q + 1}
        ELSE {q, q + 1}

\* Line 105: the values the list averages can take.
averages ==
    Average(sum_amps[1], count) \X Average(sum_amps[2], count) \X Average(sum_amps[3], count)

Reading(id, str, vals) == [id |-> id, time |-> str, vals |-> vals]

\* The boundary test of line 103, the clock having ticked after n readings.
flush_due(n) ==
    minutes_of(time_at(clock_read(n, 1), clock_read(n, 2))) >= next_minute

\* Lines 111-112: the Reading of the main stream from the averages avg;
\* time_str() makes
\* the third and fourth reading of the clock.
flush_power(n, avg) ==
    <<Reading(flushes + 1, str_of(time_at(clock_read(n, 3), clock_read(n, 4))),
              <<avg[1], avg[2]>>)>>

\* Line 114: the Reading of the extra stream, fifth and sixth reading.
flush_extra(n, avg) ==
    <<Reading(flushes + 1, str_of(time_at(clock_read(n, 5), clock_read(n, 6))),
              <<avg[3]>>)>>

\* Lines 103-118 when the boundary is reached, the clock ticking after n of
\* the six readings (n = 6: not during the step), leaving the given sums,
\* count, next boundary and mailboxes.
flush_step(n, sums, cnt, win, next, power, extra) ==
    /\ CanRun("measure")
    /\ mpc = "check"
    /\ flushes < MaxFlushes
    /\ n < 6 => CanTick
    /\ flush_due(n)
    /\ current_power' = power
    /\ current_extra' = extra
    /\ sum_amps' = sums
    /\ count' = cnt
    /\ window' = win
    /\ opened' = local_minute(time_at(clock_read(n, 1), clock_read(n, 2)))
    /\ next_minute' = next
    /\ flushes' = flushes + 1
    /\ mpc' = "start"
    /\ running' = "none"
    /\ time' = IF n < 6 THEN time + 1 ELSE time
    /\ UNCHANGED <<station, mainpc, upVars, today, startDay, adcVars, pubVars, wpc,
                   sentVars, failVars, net_station>>

\* Mutant of measure_flush: the running sums are not reset.
measure_flush_keep_sums ==
    /\ mpc = "check"
    /\ \E n \in 1..6, avg \in averages :
       flush_step(n, sum_amps, 0, << >>, next_minute + MIN_PER_READING,
                  flush_power(n, avg), flush_extra(n, avg))

\* Mutant of measure_flush: a mailbox that still holds a Reading is not overwritten.
measure_flush_keep_unsent ==
    /\ mpc = "check"
    /\ \E n \in 1..6, avg \in averages :
       flush_step(n, Zeros, 0, << >>, next_minute + MIN_PER_READING,
                  IF current_power # None THEN current_power ELSE flush_power(n, avg),
                  IF current_extra # None THEN current_extra ELSE flush_extra(n, avg))

\* Variant of measure_flush: the next boundary is counted from the current
\* minute instead of from the previous boundary.
measure_flush_snap ==
    /\ mpc = "check"
    /\ \E n \in 1..6, avg \in averages :
       flush_step(n, Zeros, 0, << >>,
                  minutes_of(time_at(clock_read(n, 1), clock_read(n, 2))) + MIN_PER_READING,
                  flush_power(n, avg), flush_extra(n, avg))

\* Variant of measure_flush: the boundary is checked before the pass of the
\* cycle is counted, so that pass opens the next window.
measure_flush_carry ==
    /\ mpc = "check"
    /\ \E n \in 1..6, avg \in averages :
       flush_step(n, get_amps_RMS, 1, <<get_amps_RMS>>, next_minute + MIN_PER_READING,
                  flush_power(n, avg), flush_extra(n, avg))

\* Lines 103-118, the branch taken: average, reset, advance, fill the mailboxes.
measure_flush ==
    /\ mpc = "check"
    /\ \E n \in 1..6, avg \in averages :
       flush_step(n, Zeros, 0, << >>, next_minute + MIN_PER_READING,
                  flush_power(n, avg), flush_extra(n, avg))

\* Lines 103 and 118, the branch not taken: sleep a second and start over.
\* The clock ticks after n of the two readings of line 103.
measure_noflush ==
    \E n \in 1..2 :
       /\ CanRun("measure")
       /\ mpc = "check"
       /\ n < 2 => CanTick
       /\ ~flush_due(n)
       /\ mpc' = "start"
       /\ running' = "none"
       /\ time' = IF n < 2 THEN time + 1 ELSE time
       /\ UNCHANGED <<station, mainpc, upVars, winVars, adcVars, mailVars, pubVars,
                      wpc, flushes, sentVars, failVars, net_station>>

measure_task ==
    \/ measure_begin
    \/ read_timed_ready
    \/ read_timed_index
    \/ read_timed_init
    \/ measure_poll
    \/ measure_accumulate
    \/ measure_flush
    \/ measure_noflush

\* Line 143: await client.connect().
mqtt_connect ==
    /\ CanRun("mqtt")
    /\ qpc = "connect"
    /\ station = "up"
    /\ qpc' = "sleep"
    /\ UNCHANGED <<time, station, mainpc, running, upVars, mpc, winVars, adcVars,
                   mailVars, publishing, wpc, flushes, sentVars, failVars, net_station>>

\* Variant of mqtt_wake: the publish is a blocking call, so the task keeps the
\* processor while the payload is in flight.
mqtt_wake_blocking ==
    /\ CanRun("mqtt")
    /\ qpc = "sleep"
    /\ IF current_power # None
       THEN /\ publishing' = current_power
            /\ sentPower' = Append(sentPower, current_power[1].id)
            /\ qpc' = "pub_power"
            /\ running' = "mqtt"
       ELSE /\ qpc' = "check_extra"
            /\ running' = "mqtt"
            /\ UNCHANGED <<sentPower, publishing>>
    /\ UNCHANGED <<time, station, mainpc, upVars, mpc, winVars, adcVars, mailVars,
                   wpc, flushes, sentExtra, failVars, net_station>>

\* Lines 147-155: after the sleep, hand current_power to client.publish and
\* suspend in it, or go on to the extra stream.
mqtt_wake ==
    /\ CanRun("mqtt")
    /\ qpc = "sleep"
    /\ IF current_power # None
       THEN /\ publishing' = current_power
            /\ sentPower' = Append(sentPower, current_power[1].id)
            /\ qpc' = "pub_power"
            /\ running' = "none"
       ELSE /\ qpc' = "check_extra"
            /\ running' = "mqtt"
            /\ UNCHANGED <<sentPower, publishing>>
    /\ UNCHANGED <<time, station, mainpc, upVars, mpc, winVars, adcVars, mailVars,
                   wpc, flushes, sentExtra, failVars, net_station>>

\* Variant of mqtt_power_done: the mailbox is left as it is after the publish.
mqtt_power_done_noclear ==
    /\ CanRun("mqtt")
    /\ qpc = "pub_power"
    /\ station = "up"
    /\ publishing' = None
    /\ qpc' = "check_extra"
    /\ running' = "mqtt"
    /\ UNCHANGED <<time, station, mainpc, upVars, mpc, winVars, adcVars, mailVars,
                   wpc, flushes, sentVars, failVars, net_station>>

\* Lines 153-156: client.publish returns (it pauses while WiFi is down);
\* current_power = None.
mqtt_power_done ==
    /\ CanRun("mqtt")
    /\ qpc = "pub_power"
    /\ station = "up"
    /\ current_power' = None
    /\ publishing' = None
    /\ qpc' = "check_extra"
    /\ running' = "mqtt"
    /\ UNCHANGED <<time, station, mainpc, upVars, mpc, winVars, adcVars,
                   current_extra, wpc, flushes, sentVars, failVars, net_station>>

\* Lines 158-165: hand current_extra to client.publish, or print '-' and sleep.
mqtt_check_extra ==
    /\ CanRun("mqtt")
    /\ qpc = "check_extra"
    /\ IF current_extra # None
       THEN /\ publishing' = current_extra
            /\ sentExtra' = Append(sentExtra, current_extra[1].id)
            /\ qpc' = "pub_extra"
       ELSE /\ qpc' = "sleep"
            /\ UNCHANGED <<sentExtra, publishing>>
    /\ running' = "none"
    /\ UNCHANGED <<time, station, mainpc, upVars, mpc, winVars, adcVars, mailVars,
                   wpc, flushes, sentPower, failVars, net_station>>

\* Lines 159-162: client.publish returns; current_extra = None; sleep.
mqtt_extra_done ==
    /\ CanRun("mqtt")
    /\ qpc = "pub_extra"
    /\ station = "up"
    /\ current_extra' = None
    /\ publishing' = None
    /\ qpc' = "sleep"
    /\ UNCHANGED <<time, station, mainpc, running, upVars, mpc, winVars, adcVars,
                   current_power, wpc, flushes, sentVars, failVars, net_station>>

mqtt_task ==
    \/ mqtt_connect
    \/ mqtt_wake
    \/ mqtt_power_done
    \/ mqtt_check_extra
    \/ mqtt_extra_done

\* Lines 174-178: the check finds the station disconnected; web_down, then
\* suspend for a second.  (Connected: print "WiFi OK" and sleep again.)
check_WiFi_down ==
    /\ CanRun("wifi")
    /\ wpc = "sleep"
    /\ net_station # "None"
    /\ station # "up"
    /\ station' = web_down(net_station)
    /\ wpc' = "pause"
    /\ UNCHANGED <<time, mainpc, running, upVars, mpc, winVars, adcVars, mailVars,
                   pubVars, flushes, sentVars, failVars, net_station>>

\* Line 176 when the task was given None (web_up found the station already
\* connected at start-up): None.isconnected() raises AttributeError, nothing
\* catches it and the task ends; the other tasks go on.
check_WiFi_error ==
    /\ CanRun("wifi")
    /\ wpc = "sleep"
    /\ net_station = "None"
    /\ wpc' = "dead"
    /\ UNCHANGED <<time, station, mainpc, running, upVars, mpc, winVars, adcVars,
                   mailVars, pubVars, flushes, sentVars, failVars, net_station>>

\* Line 179: web_up() is called, and runs without yielding.
check_WiFi_up ==
    /\ CanRun("wifi")
    /\ wpc = "pause"
    /\ wpc' = "web_up"
    /\ running' = "wifi"
    /\ UNCHANGED <<time, station, mainpc, upVars, mpc, winVars, adcVars, mailVars,
                   pubVars, flushes, sentVars, failVars, net_station>>

check_WiFi_task == check_WiFi_down \/ check_WiFi_error \/ check_WiFi_up

web_up ==
    \/ web_up_enter
    \/ web_up_connect
    \/ web_up_wait
    \/ web_up_connected
    \/ web_up_timeout

\* The times ntptime.settime() may write to the RTC.
ServerTimes == {StartTime, SpringStart, FallStart}

\* esp32_time.sync_time(), main.py line 205: retried until NTP answers, and
\* ntptime.settime() then sets the RTC to the server's time.
sync_time ==
    /\ mainpc = "sync_time"
    /\ station = "up"
    /\ time' \in ServerTimes
    /\ mainpc' = "start"
    /\ UNCHANGED <<station, running, upVars, mpc, winVars, adcVars, mailVars,
                   pubVars, wpc, flushes, sentVars, failVars, net_station>>

\* Lines 207-217 and main(): the three tasks are created and the loop runs.
main ==
    /\ mainpc = "start"
    /\ mainpc' = "run"
    /\ running' = "none"
    /\ UNCHANGED <<time, station, upVars, mpc, winVars, adcVars, mailVars, pubVars,
                   wpc, flushes, sentVars, failVars, net_station>>

\* The process ends: the event loop and its tasks are gone, with their locals.
\* The globals, the station and the Timed_ADCs object with its timer remain.
Exit(pc, st) ==
    /\ mainpc' = pc
    /\ station' = st
    /\ running' = "none"
    /\ upc' = "idle"
    /\ ucount' = 0
    /\ mpc' = "dead"
    /\ qpc' = "dead"
    /\ publishing' = None
    /\ wpc' = "dead"
    /\ next_minute' = 0
    /\ today' = 0
    /\ startDay' = 0
    /\ sum_amps' = Zeros
    /\ count' = 0
    /\ window' = << >>
    /\ opened' = 0
    /\ UNCHANGED <<time, adcVars, mailVars, flushes, sentVars, failVars, net_station>>

\* Control-C while asyncio.run() executes outside web_up: lines 219-225,
\* the finally clause calls web_down(net_station).
KeyboardInterrupt_run ==
    /\ mainpc = "run"
    /\ ~InWebUp
    /\ Exit("exited", web_down(net_station))

\* Control-C inside the try of web_up, boot.py lines 39-42: the station is
\* torn down, "canceled." is printed and the while loop goes round again.
KeyboardInterrupt_web_up ==
    /\ InWebUp
    /\ station' = "off"
    /\ upc' = "try"
    /\ UNCHANGED <<time, mainpc, running, ucount, mpc, winVars, adcVars, mailVars,
                   pubVars, wpc, flushes, sentVars, failVars, net_station>>

\* Control-C before the try of main.py line 216 and outside web_up's try: the
\* exception is not caught and no finally clause runs.
KeyboardInterrupt_boot ==
    /\ mainpc \in {"web_up", "sync_time", "start"}
    /\ ~InWebUp
    /\ Exit("aborted", station)

KeyboardInterrupt ==
    \/ KeyboardInterrupt_run
    \/ KeyboardInterrupt_web_up
    \/ KeyboardInterrupt_boot

\* -------------------------------------------------------- environment
\* A minute of wall-clock time passes.
clock_tick ==
    /\ mainpc \notin {"exited", "aborted"}
    /\ CanTick
    /\ time' = time + 1
    /\ UNCHANGED <<station, mainpc, running, upVars, mpc, winVars, adcVars,
                   mailVars, pubVars, wpc, flushes, sentVars, failVars, net_station>>

\* The access point accepts the station.
wifi_join ==
    /\ station = "joining"
    /\ station' = "up"
    /\ UNCHANGED <<time, mainpc, running, upVars, mpc, winVars, adcVars, mailVars,
                   pubVars, wpc, flushes, sentVars, failVars, net_station>>

\* The connection is lost; the station keeps trying to rejoin.
wifi_drop ==
    /\ station = "up"
    /\ station' = "joining"
    /\ UNCHANGED <<time, mainpc, running, upVars, mpc, winVars, adcVars, mailVars,
                   pubVars, wpc, flushes, sentVars, failVars, net_station>>

\* ------------------------------------------------------ specification
Init ==
    /\ time = PowerUpTime
    /\ station \in {"off", "up"}
    /\ mainpc = "web_up"
    /\ net_station = "None"
    /\ running = "main"
    /\ upc = "idle"
    /\ ucount = 0
    /\ mpc = "init"
    /\ next_minute = 0
    /\ today = 0
    /\ startDay = 0
    /\ sum_amps = Zeros
    /\ count = 0
    /\ bufA = [i \in 1..BufSize |-> 0]
    /\ bufB = [i \in 1..BufSize |-> 0]
    /\ bufX = [i \in 1..BufSize |-> 0]
    /\ index = 0
    /\ ready = FALSE
    /\ timer = FALSE
    /\ current_power = None
    /\ current_extra = None
    /\ qpc = "connect"
    /\ publishing = None
    /\ wpc = "sleep"
    /\ window = << >>
    /\ opened = 0
    /\ flushes = 0
    /\ sentPower = << >>
    /\ sentExtra = << >>
    /\ fails = 0
    /\ ticks = 0
    /\ stamp = [i \in 1..BufSize |-> Zeros]
    /\ accumulated = FALSE

Next ==
    \/ web_up
    \/ sync_time
    \/ main
    \/ measure_task
    \/ mqtt_task
    \/ check_WiFi_task
    \/ adc_callback
    \/ KeyboardInterrupt
    \/ clock_tick
    \/ wifi_join
    \/ wifi_drop

Spec == Init /\ [][Next]_vars

\* The sampling task, the timer callback and the clock on their own, with
\* sensor reads that may fail, from the state in which asyncio.run() starts
\* the tasks after web_up() found the station connected.
InitFail ==
    /\ time = StartTime
    /\ station = "up"
    /\ mainpc = "run"
    /\ net_station = "None"
    /\ running = "none"
    /\ upc = "idle"
    /\ ucount = 0
    /\ mpc = "init"
    /\ next_minute = 0
    /\ today = 0
    /\ startDay = 0
    /\ sum_amps = Zeros
    /\ count = 0
    /\ bufA = [i \in 1..BufSize |-> 0]
    /\ bufB = [i \in 1..BufSize |-> 0]
    /\ bufX = [i \in 1..BufSize |-> 0]
    /\ index = 0
    /\ ready = FALSE
    /\ timer = FALSE
    /\ current_power = None
    /\ current_extra = None
    /\ qpc = "connect"
    /\ publishing = None
    /\ wpc = "sleep"
    /\ window = << >>
    /\ opened = 0
    /\ flushes = 0
    /\ sentPower = << >>
    /\ sentExtra = << >>
    /\ fails = 0
    /\ ticks = 0
    /\ stamp = [i \in 1..BufSize |-> Zeros]
    /\ accumulated = FALSE

NextFail ==
    \/ measure_task
    \/ adc_callback
    \/ adc_callback_fail
    \/ clock_tick

SpecFail == InitFail /\ [][NextFail]_vars

\* get_RMS and get_amps_RMS on their own: the buffers of a completed first
\* pass hold any raw readings, independently per channel, and the sampling
\* task converts and accumulates them (main.py 95-100).
RawValues == {0, SampleHigh \div 4, SampleHigh \div 2}

InitRMS ==
    /\ time = StartTime
    /\ station = "up"
    /\ mainpc = "run"
    /\ net_station = "None"
    /\ running = "measure"
    /\ upc = "idle"
    /\ ucount = 0
    /\ mpc = "rms"
    /\ next_minute = minutes_now + 1
    /\ today = time_now.mday
    /\ startDay = time_now.dayno
    /\ sum_amps = Zeros
    /\ count = 0
    /\ bufA \in [1..BufSize -> RawValues]
    /\ bufB \in [1..BufSize -> RawValues]
    /\ bufX \in [1..BufSize -> RawValues]
    /\ index = BufSize
    /\ ready = TRUE
    /\ timer = FALSE
    /\ current_power = None
    /\ current_extra = None
    /\ qpc = "connect"
    /\ publishing = None
    /\ wpc = "sleep"
    /\ window = << >>
    /\ opened = local_minute(time_now)
    /\ flushes = 0
    /\ sentPower = << >>
    /\ sentExtra = << >>
    /\ fails = 0
    /\ ticks = BufSize + 1
    /\ stamp = [i \in 1..BufSize |-> <<i, i, i>>]
    /\ accumulated = FALSE

NextRMS == measure_accumulate

SpecRMS == InitRMS /\ [][NextRMS]_vars

\* ------------------------------------------------------------- claims
Range(s) == {s[i] : i \in DOMAIN s}

\* Sum over the window of channel c, and the Reading values it averages to.
WindowSum(c) == SeqSum([i \in 1..Len(window) |-> window[i][c]])

WindowPower(c) == Average(WindowSum(c), Len(window))

\* C1: a mailbox is cleared only of a Reading that was handed to the
\* publisher: whenever current_power or current_extra goes from a Reading to
\* None, that Reading is among those passed to client.publish on its topic.
C1_ClearedOnlyAfterHandedOver ==
    [][ /\ (current_power # None /\ current_power' = None)
            => current_power[1].id \in Range(sentPower)
        /\ (current_extra # None /\ current_extra' = None)
            => current_extra[1].id \in Range(sentExtra) ]_vars

\* C2: while the watchdog task reconnects, the sampling task is not blocked:
\* once web_up, called by check_WiFi_task, has waited a second in its poll
\* loop (count >= 1), the processor is free for measure_task, whose longest
\* suspension is one second.
C2_SamplingNotBlockedByReconnect ==
    (mainpc = "run" /\ wpc = "web_up" /\ upc = "poll" /\ ucount >= 1)
        => running \in {"none", "measure"}

\* The local wall clock now, and the scheduled end of the current window, both
\* in minutes since the local midnight that began 2026-01-01.
LocalNow == local_minute(time_now)
WindowEnd == startDay * (24 * 60) + next_minute

\* The time strings a Reading made in a step from this state may carry.
FlushTimes == {str_of(time_at(t1, t2)) : t1 \in {time, time + 1}, t2 \in {time, time + 1}}

\* C3: the first boundary check made once wall-clock time has reached the
\* scheduled end of the window (next_minute of the day the task began on)
\* produces a Reading, also when that end falls after midnight.
C3_BoundaryCheckFlushes ==
    [][ (mpc = "check" /\ mpc' = "start" /\ time' = time /\ LocalNow >= WindowEnd)
            => flushes' = flushes + 1 ]_vars

\* C4: get_amps_RMS is evaluated only in states where ready is true, and while
\* ready is true no step writes a buffer or changes index.
C4_ReaderOwnsAfterReady ==
    /\ [](mpc = "rms" => ready)
    /\ [][ready => UNCHANGED <<bufA, bufB, bufX, index>>]_vars

\* C4 witness: the sampling task is about to compute RMS from buffers the
\* timer callback has filled.
C4_Witness ==
    /\ mpc = "rms"
    /\ ready
    /\ index = BufSize
    /\ bufA[1] = SampleHigh
    /\ bufA[BufSize] = 0

\* C5: read_timed is only executed with the timer disarmed, ready is false and
\* index is 0 when the timer is armed, and an armed timer never coexists with
\* ready or with a sampling task that is not waiting for the pass to end.
C5_OnePassInFlight ==
    /\ mpc \in {"init", "start", "rt_index", "rt_init"} => ~timer
    /\ mpc = "rt_init" => (~ready /\ index = 0)
    /\ timer => (~ready /\ mpc \in {"wait", "dead"})

\* C5 witness: a second pass is about to arm the timer after a completed one.
C5_Witness ==
    /\ mpc = "rt_init"
    /\ count >= 1
    /\ bufA[1] = SampleHigh
    /\ ~timer

\* C6: whenever the sampling task is at the boundary check, where the averages
\* sum / count are computed, count is at least 1.
C6_FlushCountPositive == mpc = "check" => count >= 1

\* C6 witness: a boundary check that will flush, in a window opened by a
\* previous flush.
C6_Witness ==
    /\ mpc = "check"
    /\ minutes_now >= next_minute
    /\ flushes >= 1
    /\ count >= 1

\* C7: a flush after m accumulated cycles writes, for each channel, the mean of
\* the m accumulated values times AC_VOLTAGE, and the same step resets the
\* running sums and count to 0.
C7_FlushAveragesAndResets ==
    [][ flushes' # flushes =>
          /\ count = Len(window)
          /\ count >= 1
          /\ \E str \in FlushTimes, a \in WindowPower(1), b \in WindowPower(2) :
                current_power' = <<Reading(flushes', str, <<a, b>>)>>
          /\ \E str \in FlushTimes, x \in WindowPower(3) :
                current_extra' = <<Reading(flushes', str, <<x>>)>>
          /\ sum_amps' = Zeros
          /\ count' = 0 ]_vars

\* C7 witness: a window of two cycles, one of 1 A, 0.5 A, 0.25 A and one of
\* no current, was flushed to 60.00 W, 30.00 W and 15.00 W.
C7_Witness ==
    /\ flushes >= 1
    /\ count = 0
    /\ sum_amps = Zeros
    /\ current_power # None
    /\ current_power[1].vals = <<6000, 3000>>
    /\ current_extra # None
    /\ current_extra[1].vals = <<1500>>

\* C8: a mailbox only ever holds the Reading of the latest flush; a Reading is
\* handed to client.publish only from a non-empty mailbox; and an empty
\* mailbox stays empty until the next flush.
C8_OverwriteAndClear ==
    /\ [](current_power # None => current_power[1].id = flushes)
    /\ [](current_extra # None => current_extra[1].id = flushes)
    /\ [][ /\ sentPower' # sentPower => current_power # None
           /\ sentExtra' # sentExtra => current_extra # None
           /\ (current_power = None /\ current_power' # None) => flushes' # flushes
           /\ (current_extra = None /\ current_extra' # None) => flushes' # flushes ]_vars

\* C8 witness: the first Reading was overwritten unsent, the second was sent
\* and cleared on both streams, and a later publish cycle found the main
\* mailbox empty and sent nothing.
C8_Witness ==
    /\ flushes = 2
    /\ qpc = "check_extra"
    /\ current_power = None
    /\ current_extra = None
    /\ sentPower = <<2>>
    /\ sentExtra = <<2>>

\* A sensor read has failed during the current pass.
passFailed == fails > 0

\* C9: a pass during which a sensor read failed never becomes ready.
C9_FailedPassAborted == passFailed => ~ready

\* C10: after the exit through the finally clause of __main__ the station is
\* torn down and the sampling timer is disarmed.
C10_OrderlyExit == mainpc = "exited" => (station = "off" /\ ~timer)

\* C11: a cancellation signal delivered at any point, during a reconnect
\* included, tears the station down and ends the process: no delivery leaves
\* the process running and none ends it with the station still configured.
C11_SignalTearsDownAndExits ==
    [][KeyboardInterrupt => (mainpc' \in {"exited", "aborted"} /\ station' = "off")]_vars

\* C12: a task suspended at one of its awaits never holds the processor: the
\* publish task does not hold it while a publish is in flight (stalled or
\* not), and whoever holds it is between two of its own suspension points.
C12_SuspendedTaskYields ==
    /\ qpc \in {"pub_power", "pub_extra"} => running # "mqtt"
    /\ running = "mqtt" => qpc = "check_extra"
    /\ running = "measure" => mpc \in {"start", "rt_index", "rt_init", "rms", "check"}
    /\ running = "wifi" => wpc = "web_up"
    /\ running = "main" => mainpc # "run"

\* The sampling task has taken a pass through to the boundary check while
\* the publish task waits in a publish that cannot complete.
C12_Witness ==
    /\ qpc = "pub_power" /\ station # "up"
    /\ mpc = "check" /\ running = "measure" /\ flushes >= 1 /\ count >= 1

\* C13: every window, the first included, is scheduled to end MIN_PER_READING
\* minutes after the minute at which it opened, and a flush comes at least
\* MIN_PER_READING minutes after the flush before it.
C13_WindowLengthFixed ==
    /\ [](mpc \notin {"init", "dead"} => WindowEnd = opened + MIN_PER_READING)
    /\ [][(flushes' # flushes /\ flushes >= 1) => opened' - opened >= MIN_PER_READING]_vars

\* C13 as the code has it: the first window is scheduled to end one minute
\* after the minute the task started; every later window is scheduled to end
\* at most MIN_PER_READING minutes after the minute it opened (exactly so
\* when the flush that opened it was on time), and a flush that follows an
\* on-time flush comes at least MIN_PER_READING minutes after it.
C13_WindowEndSchedule ==
    /\ [](mpc \notin {"init", "dead"} =>
            /\ flushes = 0 => WindowEnd = opened + 1
            /\ flushes >= 1 => WindowEnd <= opened + MIN_PER_READING)
    /\ [][(flushes' # flushes /\ WindowEnd = opened + MIN_PER_READING)
            => opened' - opened >= MIN_PER_READING]_vars

\* One flush has been made late and the next boundary check, less than
\* MIN_PER_READING minutes after it, is about to flush again.
C13_Witness ==
    /\ flushes = 1 /\ mpc = "check" /\ minutes_now >= next_minute
    /\ LocalNow - opened < MIN_PER_READING /\ WindowEnd < opened + MIN_PER_READING

\* C14: a flush moves the scheduled end exactly MIN_PER_READING past its
\* previous value, however late the flush is; apart from the assignment that
\* starts the task and the end of the task, no other step changes it.
C14_FixedIncrementOnly ==
    [][ /\ flushes' # flushes => next_minute' = next_minute + MIN_PER_READING
        /\ next_minute' # next_minute =>
              (flushes' # flushes \/ mpc = "init" \/ mpc' = "dead") ]_vars

\* A flush made MIN_PER_READING or more minutes after the scheduled end has
\* just happened: the new scheduled end is already reached.
C14_Witness ==
    /\ flushes = 1 /\ count = 0 /\ opened = LocalNow /\ mpc = "start"
    /\ LocalNow >= WindowEnd /\ minutes_now >= next_minute

\* C15: the write position stays within 0..buf_size; when ready is set the
\* timer is disarmed, the position is buf_size, and every slot of the three
\* buffers was written during the current pass, its three channels by one
\* and the same tick.
C15_ReadyMeansFullPass ==
    /\ index \in 0..BufSize
    /\ ready =>
          /\ ~timer
          /\ index = BufSize
          /\ \A i \in 1..BufSize :
                /\ stamp[i][1] >= 1
                /\ stamp[i][2] = stamp[i][1]
                /\ stamp[i][3] = stamp[i][1]

\* A pass other than the first is complete: the buffers held the previous
\* pass's samples and every slot has been written again.
C15_Witness ==
    /\ ready /\ mpc = "rms" /\ count >= 1 /\ index = BufSize /\ ~timer
    /\ \A i \in 1..BufSize : stamp[i] = <<i, i, i>>

\* C16: in a cycle the pass is started, filled, found ready, converted and
\* accumulated in that order; a completed pass is added to the running sums
\* once, before the next pass starts, and to one window only; the pass of a
\* flushing cycle is the last one of the flushed window and the next window
\* starts empty.
C16_PassAccumulatedOnceInOrder ==
    /\ [](/\ mpc \in {"rt_index", "rt_init", "wait"} => ~accumulated
          /\ mpc = "wait" => (timer # ready)
          /\ mpc = "rms" => (ready /\ ~timer /\ index = BufSize /\ ~accumulated)
          /\ mpc = "check" => /\ accumulated /\ ready
                              /\ Len(window) = count /\ count >= 1
                              /\ window[count] = get_amps_RMS)
    /\ [][ /\ (~accumulated /\ accumulated') =>
                /\ mpc = "rms"
                /\ window' = Append(window, get_amps_RMS)
                /\ sum_amps' = [c \in 1..3 |-> sum_amps[c] + window'[Len(window')][c]]
           /\ window' # window => ((~accumulated /\ accumulated') \/ window' = << >>)
           /\ sum_amps' # sum_amps => ((~accumulated /\ accumulated') \/ sum_amps' = Zeros)
           /\ (mpc = "start" /\ mpc' = "rt_index" /\ ready) => accumulated
           /\ flushes' # flushes =>
                /\ accumulated /\ window[Len(window)] = get_amps_RMS
                /\ window' = << >> /\ sum_amps' = Zeros /\ count' = 0 ]_vars

\* The cycle whose pass read a current has flushed: the pass is in the
\* Reading just produced and the new window holds nothing yet.
C16_Witness ==
    /\ flushes = 1 /\ mpc = "start" /\ accumulated /\ ready
    /\ window = << >> /\ count = 0 /\ sum_amps = Zeros /\ get_amps_RMS[1] > 0
    /\ current_power # None /\ current_power[1].vals[1] > 0

\* C17: the watchdog that finds the station disconnected tears it down, then
\* calls the reconnect, which returns only with the station connected; the
\* watchdog then sleeps again.  Only the cancellation signal ends the
\* watchdog or the process; a loss of connectivity never does.
C17_WatchdogRecovers ==
    /\ [](/\ wpc = "pause" => station = "off"
          /\ (mainpc = "run" /\ wpc = "web_up") => running = "wifi"
          /\ (mainpc = "run" /\ wpc = "web_up" /\ upc = "idle") => station = "off")
    /\ [][ /\ (wpc = "sleep" /\ wpc' \notin {"sleep", "dead"}) =>
                (station # "up" /\ station' = "off" /\ wpc' = "pause")
           /\ (wpc = "pause" /\ wpc' # "pause") => wpc' \in {"web_up", "dead"}
           /\ (wpc = "web_up" /\ wpc' # "web_up") =>
                ((wpc' = "sleep" /\ station = "up" /\ station' = "up") \/ wpc' = "dead")
           /\ (wpc # "dead" /\ wpc' = "dead") => KeyboardInterrupt
           /\ (mainpc # mainpc' /\ mainpc' \in {"exited", "aborted"}) => KeyboardInterrupt ]_vars

\* The RMS about the mean of one buffer from its sum and its sum of squares:
\* n * sum(x^2) - sum(x)^2 is n^2 times the variance.
RefRms(buf) ==
    LET n  == BufSize
        s1 == SeqSum(buf)
        s2 == SeqSum([i \in 1..n |-> buf[i] * buf[i]])
    IN  Sqrt((n * s2 - s1 * s1) \div (n * n))

Constant(buf) == \A i, j \in 1..BufSize : buf[i] = buf[j]

\* C18: for a buffer whose entries all equal one value get_RMS returns 0 for
\* that channel, whatever the other buffers hold, and the value returned for
\* a channel is the RMS of that channel's buffer alone; the amps the task
\* accumulates from the first pass of a window are those values converted.
C18_RmsPerChannel ==
    LET bufs == <<bufA, bufB, bufX>>
    IN  /\ \A c \in 1..3 :
              /\ Constant(bufs[c]) => get_RMS[c] = 0
              /\ get_RMS[c] = RefRms(bufs[c])
        /\ (mpc = "check" /\ count = 1) =>
              \A c \in 1..3 :
                 /\ sum_amps[c] = get_amps_RMS[c]
                 /\ Constant(bufs[c]) => sum_amps[c] = 0

\* Channel B read one non-zero value throughout while channel A varied: the
\* task has accumulated zero for B and a current for A.
C18_Witness ==
    /\ mpc = "check" /\ Constant(bufB) /\ bufB[1] = SampleHigh \div 2
    /\ ~Constant(bufA) /\ ~Constant(bufX)
    /\ sum_amps[1] > 0 /\ sum_amps[2] = 0 /\ sum_amps[3] > 0

StrictlyIncreasing(s) == \A i \in 1..(Len(s) - 1) : s[i] < s[i + 1]

\* C19: on each stream the Readings handed to the publisher are handed in
\* the order they were produced and none is handed twice; a publish is
\* started only from a non-empty mailbox and carries the value the mailbox
\* holds at that moment.
C19_HandedOnceInOrder ==
    /\ [](/\ StrictlyIncreasing(sentPower)
          /\ StrictlyIncreasing(sentExtra)
          /\ qpc = "pub_power" =>
                (publishing # None /\ publishing[1].id = sentPower[Len(sentPower)])
          /\ qpc = "pub_extra" =>
                (publishing # None /\ publishing[1].id = sentExtra[Len(sentExtra)]))
    /\ [][ /\ sentPower' # sentPower =>
                /\ current_power # None
                /\ publishing' = current_power
                /\ sentPower' = Append(sentPower, current_power[1].id)
           /\ sentExtra' # sentExtra =>
                /\ current_extra # None
                /\ publishing' = current_extra
                /\ sentExtra' = Append(sentExtra, current_extra[1].id) ]_vars

\* Two Readings of each stream have been handed to the publisher.
C19_Witness ==
    /\ sentPower = <<1, 2>> /\ sentExtra = <<1, 2>>
    /\ qpc = "pub_extra" /\ publishing = current_extra /\ flushes = 2

====
